---- MODULE Spec2Model ----
(***************************************************************************)
(* DeckTutor combo detection service (python-service/main.py).             *)
(*                                                                         *)
(* The model covers the process-wide combo cache (combo_cache), the        *)
(* cached lookup get_card_combos_cached, the matcher find_combos_in_deck   *)
(* and the request handler check_combos.  A request is one Begin (the      *)
(* validation and the matcher's set-up) followed by one LookupStep per     *)
(* deck card; every LookupStep is one pass of the matcher's outer loop:    *)
(* the cached lookup of the card (with the provider's answer as the        *)
(* step's input) and the classification of every record it returned.  The  *)
(* step that handles the last card also builds the response.               *)
(*                                                                         *)
(* A card name is a sequence of characters, so that lower() is computed    *)
(* character by character.                                                 *)
(***************************************************************************)
EXTENDS Integers, Sequences, FiniteSets, TLC

VARIABLES
    combo_cache,       \* main.py:81   dict: lowercased card name -> list of records
    hash_of,           \* the process's str hash (randomised per process run)
    pc,                \* "idle" | "loop" | "done": position of the handler
    request,           \* request.cards of the current (or last) request
    card_names,        \* find_combos_in_deck's argument of the current (or last) call
    deck_cards,        \* main.py:116  set of lowercased deck names
    found_combos,      \* main.py:117  insertion-ordered dict, as a sequence of [id, v]
    potential_combos,  \* main.py:118  insertion-ordered dict, as a sequence of [id, v]
    idx,               \* position of the for loop of main.py:120 (next card)
    response,          \* the handler's answer (status 0: none yet)
    lookup,            \* history: the last cached lookup of the current (or last) call
    seen,              \* history: the records the call's lookups returned
    any_ok,            \* history: some provider call of the call succeeded
    any_fail,          \* history: some provider call of the call failed
    hit_data,          \* history: some lookup of the call was a hit on a non-empty list
    prev,              \* history: the call before, when it had the same deck: its
                       \*   lists, and whether none of its provider calls failed
    synth,             \* history: the identities synthesized for each id-less record
    threads,           \* concurrent callers of get_card_combos_cached: for each worker
                       \*   its position in the function, its card_name and what it returned
    cache0,            \* history: combo_cache as it was when the current (or last)
                       \*   request started
    provided           \* history: the <<key, list>> pairs the provider answered the
                       \*   concurrent callers with (None counted as the empty list)

vars == <<combo_cache, hash_of, pc, request, card_names, deck_cards, found_combos,
          potential_combos, idx, response, lookup, seen, any_ok, any_fail, hit_data,
          prev, synth, cache0, threads, provided>>

\* The state of the request handler and of its matcher
handler_vars == <<hash_of, pc, request, card_names, deck_cards, found_combos,
                  potential_combos, idx, response, lookup, seen, any_ok, any_fail,
                  hit_data, prev, synth, cache0>>

----------------------------------------------------------------------------
(* Program constants *)

MaxCards == 200          \* main.py:210
PotentialLimit == 20     \* main.py:222
MinPresent == 2          \* main.py:134

(* Bounds of the model *)

MaxDeck == 2             \* longest deck of the general specification
ExtraPotential == 1      \* the long provider answer has PotentialLimit + ExtraPotential records

----------------------------------------------------------------------------
(* Card names and str.lower() *)

A == <<"A">>
a == <<"a">>
B == <<"B">>
D == <<"D">>
\* A name that differs from A by more than letter case (a trailing blank)
Asp == <<"A", " ">>

LowerChar(c) ==
    CASE c = "A" -> "a"
      [] c = "B" -> "b"
      [] c = "D" -> "d"
      [] OTHER -> c

Lower(s) == [k \in DOMAIN s |-> LowerChar(s[k])]

LowerAll(names) == [k \in DOMAIN names |-> Lower(names[k])]

----------------------------------------------------------------------------
(* Provider records: dicts, some keys of which may be absent *)

R1 == [id |-> "c1", cards |-> <<A, B>>, description |-> "two cards"]
R2 == [id |-> "c1", cards |-> <<a, B, D>>, result |-> "win"]
R4 == [cards |-> <<B, a>>]
R5 == [id |-> "c2"]
R6 == [id |-> "c3", cards |-> <<A, a>>]
\* An item of the provider's answer that is not a dict (a str, as the keys of a
\* dict answer are): combo_data.get raises AttributeError at main.py:124
RBad == [not_a_dict |-> "str"]
\* A second record that is potential in a deck of "A" and "B"
R7 == [id |-> "c4", cards |-> <<B, A, D>>, description |-> "three cards"]

Pool == {R1, R2, R4, R5, R6}

\* dict.get(key, default)
Get(d, key, default) == IF key \in DOMAIN d THEN d[key] ELSE default

HashInputs == {r \in Pool : "id" \notin DOMAIN r}

\* Two of the values str hashes take
HashVals == {11, 47}

RECURSIVE SeqsUpTo(_, _)
SeqsUpTo(S, n) ==
    IF n = 0 THEN {<<>>}
    ELSE LET shorter == SeqsUpTo(S, n - 1)
         IN  shorter \cup {Append(s, x) : s \in {t \in shorter : Len(t) = n - 1}, x \in S}

\* The provider's answers of the general specification: nothing, any one
\* record, and the same identity first as potential, then as complete
Responses == {<<>>} \cup {<<r>> : r \in Pool} \cup {<<R2, R1>>}

\* What one call of EDHRec().get_card_combos can do
Outcomes ==
    {[kind |-> "ok", combos |-> r] : r \in Responses}
    \cup {[kind |-> "none", combos |-> <<>>],
          [kind |-> "raise", combos |-> <<>>],
          [kind |-> "import_error", combos |-> <<>>]}

DeckNames == {A, a, B}

Decks == SeqsUpTo(DeckNames, MaxDeck)

\* The long provider answer: n potential records followed by n complete ones
LongResponse(n) ==
    [j \in 1..(2 * n) |->
        IF j <= n
        THEN [id |-> "p" \o ToString(j), cards |-> <<A, B, D>>, result |-> "win"]
        ELSE [id |-> "q" \o ToString(j - n), cards |-> <<A, B>>]]

LimitOutcomes ==
    {[kind |-> "ok", combos |-> LongResponse(PotentialLimit + ExtraPotential)],
     [kind |-> "raise", combos |-> <<>>]}

\* A deck of n cards, all the same
Pad(n) == [j \in 1..n |-> B]

LimitDecks == {<<>>, <<A, B>>, Pad(MaxCards), Pad(MaxCards + 1)}

----------------------------------------------------------------------------
(* Combo Lookup Cache: get_card_combos_cached, main.py:85-105 *)

Put(cache, key, value) ==
    [k \in DOMAIN cache \cup {key} |-> IF k = key THEN value ELSE cache[k]]

\* main.py:89: the lookup finds no entry under the lowercased name
Miss_always(cache, card_name) == TRUE

Miss(cache, card_name) == Lower(card_name) \notin DOMAIN cache

\* The lookup, were it to pass the cache by
GetCardCombosCached_nocache(cache, card_name, outcome) ==
    LET cache_key == Lower(card_name)
    IN  IF outcome.kind \in {"ok", "none"}
        THEN LET combos == IF outcome.kind = "ok" THEN outcome.combos ELSE <<>>
             IN  [cache |-> Put(cache, cache_key, combos), ret |-> combos,
                  kind |-> "ok"]
        ELSE [cache |-> cache, ret |-> <<>>, kind |-> "failed"]

\* The lookup, were a failed provider call to answer with stand-in data
GetCardCombosCached_mock(cache, card_name, outcome) ==
    LET cache_key == Lower(card_name)
    IN  IF cache_key \in DOMAIN cache
        THEN [cache |-> cache, ret |-> cache[cache_key], kind |-> "hit"]
        ELSE IF outcome.kind \in {"ok", "none"}
        THEN LET combos == IF outcome.kind = "ok" THEN outcome.combos ELSE <<>>
             IN  [cache |-> Put(cache, cache_key, combos), ret |-> combos,
                  kind |-> "ok"]
        ELSE [cache |-> cache, ret |-> <<R1>>, kind |-> "failed"]

\* The lookup, were a failed provider call to store an empty list
GetCardCombosCached_poison(cache, card_name, outcome) ==
    LET cache_key == Lower(card_name)
    IN  IF cache_key \in DOMAIN cache
        THEN [cache |-> cache, ret |-> cache[cache_key], kind |-> "hit"]
        ELSE IF outcome.kind \in {"ok", "none"}
        THEN LET combos == IF outcome.kind = "ok" THEN outcome.combos ELSE <<>>
             IN  [cache |-> Put(cache, cache_key, combos), ret |-> combos,
                  kind |-> "ok"]
        ELSE [cache |-> Put(cache, cache_key, <<>>), ret |-> <<>>, kind |-> "failed"]

\* The cache after the call, the list returned, and how the call went: "hit",
\* "ok" (the provider answered, main.py:97-99) or "failed" (main.py:100-105).
\* The provider's outcome "none" is an answer of None.
GetCardCombosCached_rawkey(cache, card_name, outcome) ==
    LET cache_key == card_name
    IN  IF cache_key \in DOMAIN cache
        THEN [cache |-> cache, ret |-> cache[cache_key], kind |-> "hit"]
        ELSE IF outcome.kind \in {"ok", "none"}
        THEN LET combos == IF outcome.kind = "ok" THEN outcome.combos ELSE <<>>
             IN  [cache |-> Put(cache, cache_key, combos), ret |-> combos, kind |-> "ok"]
        ELSE [cache |-> cache, ret |-> <<>>, kind |-> "failed"]

GetCardCombosCached(cache, card_name, outcome) ==
    LET cache_key == Lower(card_name)
    IN  IF cache_key \in DOMAIN cache
        THEN [cache |-> cache, ret |-> cache[cache_key], kind |-> "hit"]
        ELSE IF outcome.kind \in {"ok", "none"}
        THEN LET combos == IF outcome.kind = "ok" THEN outcome.combos ELSE <<>>
             IN  [cache |-> Put(cache, cache_key, combos), ret |-> combos,
                  kind |-> "ok"]
        ELSE [cache |-> cache, ret |-> <<>>, kind |-> "failed"]

----------------------------------------------------------------------------
(* Deck Combo Matcher: find_combos_in_deck, main.py:108-166 *)

\* main.py:124  combo_data.get("id", str(hash(str(combo_data))))
ComboId(combo_data, hash) ==
    IF "id" \in DOMAIN combo_data THEN combo_data["id"] ELSE ToString(hash[combo_data])

HasKey(dict, key) == \E j \in DOMAIN dict : dict[j].id = key

Values(dict) == [j \in DOMAIN dict |-> dict[j].v]

\* main.py:131
Present(combo_cards, deck) ==
    LET InDeck(c) == c \in deck
    IN  SelectSeq(combo_cards, InDeck)

\* main.py:132
Missing(combo_cards, deck) ==
    LET NotInDeck(c) == c \notin deck
    IN  SelectSeq(combo_cards, NotInDeck)

\* The entry, were present_cards the record's card list as the provider gave it
MakeDeckCombo_raw(combo_id, combo_data, present) ==
    [combo |-> [id |-> combo_id,
                cards |-> Get(combo_data, "cards", <<>>),
                description |-> Get(combo_data, "description", ""),
                result |-> Get(combo_data, "result", "")],
     is_complete |-> TRUE,
     present_cards |-> Get(combo_data, "cards", <<>>),
     missing_cards |-> <<>>]

\* main.py:141-156 (the Combo fields the provider's records never set keep
\* their defaults and are left out)
MakeDeckCombo(combo_id, combo_data, present) ==
    [combo |-> [id |-> combo_id,
                cards |-> Get(combo_data, "cards", <<>>),
                description |-> Get(combo_data, "description", ""),
                result |-> Get(combo_data, "result", "")],
     is_complete |-> TRUE,
     present_cards |-> present,
     missing_cards |-> <<>>]

\* main.py:160-164
\* main.py:160-164, were every card of the combo named under cards
MakePotentialCombo_all(combo_data, present, missing) ==
    [cards |-> present \o missing,
     missing_pieces |-> missing,
     description |-> Get(combo_data, "result",
                         Get(combo_data, "description", "Unknown combo"))]

MakePotentialCombo(combo_data, present, missing) ==
    [cards |-> present,
     missing_pieces |-> missing,
     description |-> Get(combo_data, "result",
                         Get(combo_data, "description", "Unknown combo"))]

\* The test, were exactly MinPresent cards in the deck not enough
Skip_strict(combo_cards, present) ==
    combo_cards = <<>> \/ Len(present) <= MinPresent

\* The test, were one card in the deck enough
Skip_one(combo_cards, present) ==
    combo_cards = <<>> \/ Len(present) < MinPresent - 1

\* main.py:127 and 134: the record is passed over
Skip(combo_cards, present) ==
    combo_cards = <<>> \/ Len(present) < MinPresent

\* main.py:140-141, were the identity not looked for in found_combos
AddComplete_dup(st, combo_id, v) ==
    [st EXCEPT !.found = Append(@, [id |-> combo_id, v |-> v])]

\* main.py:140, were a new entry put in front of the others
AddComplete_front(st, combo_id, v) ==
    IF ~HasKey(st.found, combo_id)
    THEN [st EXCEPT !.found = <<[id |-> combo_id, v |-> v]>> \o @]
    ELSE st

\* main.py:140-156
AddComplete(st, combo_id, v) ==
    IF ~HasKey(st.found, combo_id)
    THEN [st EXCEPT !.found = Append(@, [id |-> combo_id, v |-> v])]
    ELSE st

\* main.py:159-164
AddPotential(st, combo_id, v) ==
    IF ~HasKey(st.potential, combo_id) /\ ~HasKey(st.found, combo_id)
    THEN [st EXCEPT !.potential = Append(@, [id |-> combo_id, v |-> v])]
    ELSE st

\* One pass of the inner loop, main.py:123-164; st = [found, potential]
Classify(combo_data, deck, hash, st) ==
    LET combo_id == ComboId(combo_data, hash)
        combo_cards == LowerAll(Get(combo_data, "cards", <<>>))
        present == Present(combo_cards, deck)
        missing == Missing(combo_cards, deck)
    IN  IF Skip(combo_cards, present) THEN st
        ELSE IF missing = <<>>
        THEN AddComplete(st, combo_id, MakeDeckCombo(combo_id, combo_data, present))
        ELSE AddPotential(st, combo_id, MakePotentialCombo(combo_data, present, missing))

\* The inner loop over one card's records, main.py:123 (each pass is
\* evaluated before the next one starts)
RECURSIVE ClassifyAll(_, _, _, _)
ClassifyAll(card_combos, deck, hash, st) ==
    IF card_combos = <<>> THEN st
    ELSE LET next == Classify(Head(card_combos), deck, hash, st)
         IN  IF DOMAIN next = {"found", "potential"}
             THEN ClassifyAll(Tail(card_combos), deck, hash, next)
             ELSE st

\* main.py:123-124: the inner loop raises on an item that has no get method;
\* the exception leaves find_combos_in_deck and is caught at main.py:226
Raises(card_combos) ==
    \E j \in DOMAIN card_combos : "not_a_dict" \in DOMAIN card_combos[j]

Range(s) == {s[j] : j \in DOMAIN s}

----------------------------------------------------------------------------
(* Request handler: check_combos, main.py:196-227 *)

\* The validation, were a deck of exactly MaxCards cards too long
Rejection_off(cards) ==
    IF Len(cards) = 0 THEN "No cards provided"
    ELSE IF Len(cards) >= MaxCards THEN "Too many cards (max 200)"
    ELSE ""

\* main.py:207-211: the detail of the 400 answer, "" when the request passes
Rejection(cards) ==
    IF Len(cards) = 0 THEN "No cards provided"
    ELSE IF Len(cards) > MaxCards THEN "Too many cards (max 200)"
    ELSE ""

\* The slice, were it to keep everything
Take_all(s, n) == s

\* potential[:20]
Take(s, n) == SubSeq(s, 1, IF Len(s) < n THEN Len(s) ELSE n)

\* main.py:220-225 (processing_time, a clock reading, is left out)
ComboResponse(cards, complete_combos, potential) ==
    [status |-> 200,
     detail |-> "",
     combos |-> complete_combos,
     potential_combos |-> Take(potential, PotentialLimit),
     analyzed_cards |-> Len(cards)]

NoResponse ==
    [status |-> 0, detail |-> "", combos |-> <<>>, potential_combos |-> <<>>,
     analyzed_cards |-> 0]

NoLookup == [name |-> <<>>, kind |-> "no lookup", ret |-> <<>>]

NoPrev == [same |-> FALSE, clean |-> FALSE, found |-> <<>>, potential |-> <<>>]

EmptyCache == [k \in {} |-> <<>>]

\* The callers of the concurrent lookups
Workers == {1, 2}

Idle == [pc |-> "idle", name |-> <<>>, ret |-> <<>>]

Init ==
    /\ combo_cache = EmptyCache
    /\ hash_of \in [HashInputs -> HashVals]
    /\ pc = "idle"
    /\ request = <<>>
    /\ card_names = <<>>
    /\ deck_cards = {}
    /\ found_combos = <<>>
    /\ potential_combos = <<>>
    /\ idx = 1
    /\ response = NoResponse
    /\ lookup = NoLookup
    /\ seen = {}
    /\ any_ok = FALSE
    /\ any_fail = FALSE
    /\ hit_data = FALSE
    /\ prev = NoPrev
    /\ synth = [c \in HashInputs |-> {}]
    /\ threads = [w \in Workers |-> Idle]
    /\ cache0 = EmptyCache
    /\ provided = {}

\* main.py:207-211: a request that validation rejects
Reject(cards) ==
    /\ pc # "loop"
    /\ Rejection(cards) # ""
    /\ request' = cards
    /\ response' = [NoResponse EXCEPT !.status = 400, !.detail = Rejection(cards)]
    /\ pc' = "done"
    /\ cache0' = combo_cache
    /\ UNCHANGED <<combo_cache, hash_of, card_names, deck_cards, found_combos,
                   potential_combos, idx, lookup, seen, any_ok, any_fail, hit_data,
                   prev, synth, threads, provided>>

\* main.py:207-216 and 116-118: a request passes validation and the matcher
\* is entered
Begin(cards) ==
    /\ pc # "loop"
    /\ Rejection(cards) = ""
    /\ request' = cards
    /\ card_names' = cards
    /\ deck_cards' = {Lower(c) : c \in Range(cards)}
    /\ found_combos' = <<>>
    /\ potential_combos' = <<>>
    /\ idx' = 1
    /\ pc' = "loop"
    /\ response' = NoResponse
    /\ lookup' = NoLookup
    /\ seen' = {}
    /\ any_ok' = FALSE
    /\ any_fail' = FALSE
    /\ hit_data' = FALSE
    /\ prev' = IF card_names = cards
               THEN [same |-> TRUE,
                     clean |-> ~any_fail,
                     found |-> found_combos,
                     potential |-> potential_combos]
               ELSE NoPrev
    /\ cache0' = combo_cache
    /\ UNCHANGED <<combo_cache, hash_of, synth, threads, provided>>

\* main.py:120-164: one pass of the outer loop, for card_names[idx], with the
\* provider's outcome as input; after the last card, main.py:166 and 218-225.
\* When the inner loop raises, the call is left with its locals and the
\* handler answers 500 (main.py:226-227); the lookup's insert has been made.
LookupStep(outcome) ==
    /\ pc = "loop"
    /\ LET card_name == card_names[idx]
           r == GetCardCombosCached(combo_cache, card_name, outcome)
           st == ClassifyAll(r.ret, deck_cards, hash_of,
                             [found |-> found_combos, potential |-> potential_combos])
           last == idx = Len(card_names)
       IN  /\ combo_cache' = r.cache
           /\ IF Raises(r.ret)
              THEN /\ response' = [NoResponse EXCEPT !.status = 500, !.detail = "error"]
                   /\ pc' = "done"
                   /\ card_names' = <<>>
                   /\ deck_cards' = {}
                   /\ found_combos' = <<>>
                   /\ potential_combos' = <<>>
                   /\ idx' = 1
              ELSE /\ found_combos' = st.found
                   /\ potential_combos' = st.potential
                   /\ idx' = idx + 1
                   /\ pc' = IF last THEN "done" ELSE "loop"
                   /\ response' = IF last
                                  THEN ComboResponse(request, Values(st.found),
                                                     Values(st.potential))
                                  ELSE response
                   /\ UNCHANGED <<card_names, deck_cards>>
           /\ lookup' = [name |-> card_name, kind |-> r.kind, ret |-> r.ret]
           /\ seen' = seen \cup Range(r.ret)
           /\ any_ok' = (any_ok \/ r.kind = "ok")
           /\ any_fail' = (any_fail \/ r.kind = "failed")
           /\ hit_data' = (hit_data \/ (r.kind = "hit" /\ r.ret # <<>>))
           /\ synth' = [c \in HashInputs |->
                           IF c \in Range(r.ret)
                           THEN synth[c] \cup {ComboId(c, hash_of)}
                           ELSE synth[c]]
    /\ UNCHANGED <<hash_of, request, prev, cache0, threads, provided>>

\* The process ends and a new one starts: the cache is empty again and the
\* str hash is drawn afresh (PYTHONHASHSEED is random by default)
Restart ==
    /\ pc # "loop"
    /\ combo_cache' = EmptyCache
    /\ hash_of' \in [HashInputs -> HashVals]
    /\ pc' = "idle"
    /\ request' = <<>>
    /\ card_names' = <<>>
    /\ deck_cards' = {}
    /\ found_combos' = <<>>
    /\ potential_combos' = <<>>
    /\ idx' = 1
    /\ response' = NoResponse
    /\ lookup' = NoLookup
    /\ seen' = {}
    /\ any_ok' = FALSE
    /\ any_fail' = FALSE
    /\ hit_data' = FALSE
    /\ prev' = NoPrev
    /\ cache0' = EmptyCache
    /\ UNCHANGED <<synth, threads, provided>>

Next ==
    \/ \E cards \in Decks : Reject(cards)
    \/ \E cards \in Decks : Begin(cards)
    \/ \E outcome \in Outcomes : LookupStep(outcome)

Spec == Init /\ [][Next]_vars

\* Requests at the limits of validation and answers longer than the response keeps
NextLimits ==
    \/ \E cards \in LimitDecks : Reject(cards)
    \/ \E cards \in LimitDecks : Begin(cards)
    \/ \E outcome \in LimitOutcomes : LookupStep(outcome)

SpecLimits == Init /\ [][NextLimits]_vars

\* Several process runs
RunDecks == {<<>>, <<A, B>>, <<B, a>>}

NextRuns ==
    \/ \E cards \in RunDecks : Reject(cards)
    \/ \E cards \in RunDecks : Begin(cards)
    \/ \E outcome \in Outcomes : LookupStep(outcome)
    \/ Restart

SpecRuns == Init /\ [][NextRuns]_vars

\* Decks over names that share a cache key (A, a) and one that does not (Asp)
KeyNames == {A, a, Asp}

KeyDecks == SeqsUpTo(KeyNames, MaxDeck)

NextKeys ==
    \/ \E cards \in KeyDecks : Reject(cards)
    \/ \E cards \in KeyDecks : Begin(cards)
    \/ \E outcome \in Outcomes : LookupStep(outcome)

SpecKeys == Init /\ [][NextKeys]_vars

\* Concurrent lookups: several callers run get_card_combos_cached at once and
\* are switched between its statements.  The answers of the provider:
ThreadOutcomes ==
    {[kind |-> "ok", combos |-> <<R1>>], [kind |-> "ok", combos |-> <<R2>>],
     [kind |-> "none"], [kind |-> "raise"]}

ThreadNames == {A, a, B}

\* main.py:87-90: the caller enters with card_name; on a hit it returns the
\* stored list, on a miss it goes on to call the provider
ThreadEnter(w, card_name) ==
    /\ threads[w].pc \in {"idle", "returned"}
    /\ threads' = [threads EXCEPT ![w] =
                     IF Miss(combo_cache, card_name)
                     THEN [pc |-> "provider", name |-> card_name, ret |-> <<>>]
                     ELSE [pc |-> "returned", name |-> card_name,
                           ret |-> combo_cache[Lower(card_name)]]]
    /\ UNCHANGED <<combo_cache, provided>>
    /\ UNCHANGED handler_vars

\* main.py:97-98 and 100-105: the provider call of a caller that missed comes
\* back; a list (or None) is stored, whatever the cache holds by then; a
\* failure returns the empty list and stores nothing
ThreadProvider(w, outcome) ==
    /\ threads[w].pc = "provider"
    /\ LET cache_key == Lower(threads[w].name)
           combos == IF outcome.kind = "ok" THEN outcome.combos ELSE <<>>
       IN  IF outcome.kind \in {"ok", "none"}
           THEN /\ combo_cache' = Put(combo_cache, cache_key, combos)
                /\ provided' = provided \cup {<<cache_key, combos>>}
                /\ threads' = [threads EXCEPT ![w].pc = "written"]
           ELSE /\ threads' = [threads EXCEPT ![w].pc = "returned", ![w].ret = <<>>]
                /\ UNCHANGED <<combo_cache, provided>>
    /\ UNCHANGED handler_vars

\* main.py:99: the caller that stored a list returns what the cache holds now
ThreadReturn(w) ==
    /\ threads[w].pc = "written"
    /\ threads' = [threads EXCEPT ![w].pc = "returned",
                                  ![w].ret = combo_cache[Lower(threads[w].name)]]
    /\ UNCHANGED <<combo_cache, provided>>
    /\ UNCHANGED handler_vars

NextThreads ==
    \/ \E w \in Workers, card_name \in ThreadNames : ThreadEnter(w, card_name)
    \/ \E w \in Workers, outcome \in ThreadOutcomes : ThreadProvider(w, outcome)
    \/ \E w \in Workers : ThreadReturn(w)

SpecThreads == Init /\ [][NextThreads]_vars

\* Provider answers that hold an item the matcher cannot read
ErrOutcomes ==
    {[kind |-> "ok", combos |-> <<R1>>], [kind |-> "ok", combos |-> <<RBad>>],
     [kind |-> "ok", combos |-> <<R1, RBad>>], [kind |-> "raise"]}

ErrDecks == SeqsUpTo({A, B}, MaxDeck)

NextErrors ==
    \/ \E cards \in ErrDecks : Reject(cards)
    \/ \E cards \in ErrDecks : Begin(cards)
    \/ \E outcome \in ErrOutcomes : LookupStep(outcome)

SpecErrors == Init /\ [][NextErrors]_vars

\* Answers that hold several records, of one identity or of several, and decks
\* that repeat a name
MatchResponses ==
    {<<>>, <<R1>>, <<R1, R1>>, <<R6, R1>>, <<R1, R6>>, <<R2, R7>>, <<R7, R2, R6>>}

MatchOutcomes ==
    {[kind |-> "ok", combos |-> c] : c \in MatchResponses} \cup {[kind |-> "raise"]}

MatchDecks == {<<>>, <<A, B>>, <<B, A>>, <<A, A>>, <<A, B, a>>, <<B, A, B>>}

NextMatch ==
    \/ \E cards \in MatchDecks : Reject(cards)
    \/ \E cards \in MatchDecks : Begin(cards)
    \/ \E outcome \in MatchOutcomes : LookupStep(outcome)

SpecMatch == Init /\ [][NextMatch]_vars

TypeOK ==
    /\ pc \in {"idle", "loop", "done"}
    /\ response.status \in {0, 200, 400, 500}

----------------------------------------------------------------------------
(* Properties *)

\* find_combos_in_deck has returned (main.py:166); its lists are still held
Returned == pc # "loop" /\ card_names # <<>>

KeySet(dict) == {dict[j].id : j \in DOMAIN dict}

\* The record's identity in this process run
IdOf(rec) == ComboId(rec, hash_of)

\* How many entries of the record's card list are in the deck, names compared
\* without regard to case, and how many are not
PresentCount(rec) ==
    LET cards == Get(rec, "cards", <<>>)
    IN  Cardinality({k \in DOMAIN cards : Lower(cards[k]) \in deck_cards})

MissingCount(rec) ==
    LET cards == Get(rec, "cards", <<>>)
    IN  Cardinality({k \in DOMAIN cards : Lower(cards[k]) \notin deck_cards})

\* C1: the complete list and the potential list returned by one call of
\* find_combos_in_deck never hold the same identity.
C1_MutualExclusion ==
    Returned => KeySet(found_combos) \cap KeySet(potential_combos) = {}

C3_FailureCached ==
    lookup.kind = "failed" =>
        /\ lookup.ret = <<>>
        /\ Lower(lookup.name) \in DOMAIN combo_cache
        /\ combo_cache[Lower(lookup.name)] = <<>>

\* C3 amended: a provider call that fails returns an empty list and stores
\* nothing: the lowercased name stays absent from the cache, so the next lookup
\* of the card calls the provider again.
C3_FailureNotCached ==
    lookup.kind = "failed" =>
        /\ lookup.ret = <<>>
        /\ Lower(lookup.name) \notin DOMAIN combo_cache

\* The deck names one card twice; its first lookup failed and its second one
\* reached the provider, which answered with records
C3_Witness ==
    /\ Len(card_names) = 2
    /\ Lower(card_names[1]) = Lower(card_names[2])
    /\ idx = 3
    /\ any_fail
    /\ lookup.kind = "ok"
    /\ lookup.ret # <<>>

\* The request handler has answered a request that passed validation
Answered == pc = "done" /\ Len(request) \in 1..MaxCards

\* C4 as stated: a request of 1 to 200 cards during which every provider call
\* raised is answered without error, with both lists empty and analyzed_cards
\* the length of the input list.
C4_AllRaiseEmpty ==
    (Answered /\ any_fail /\ ~any_ok) =>
        /\ response.status = 200
        /\ response.combos = <<>>
        /\ response.potential_combos = <<>>
        /\ response.analyzed_cards = Len(request)

\* C4 amended: the same, for a request none of whose lookups is answered from
\* the cache with a non-empty list.
C4_AllRaiseEmptyCold ==
    (Answered /\ any_fail /\ ~any_ok /\ ~hit_data) =>
        /\ response.status = 200
        /\ response.combos = <<>>
        /\ response.potential_combos = <<>>
        /\ response.analyzed_cards = Len(request)

\* A request of MaxCards cards (one name repeated) was answered after every one
\* of its lookups reached the provider, which raised
C4_Witness ==
    /\ Answered
    /\ Len(request) = MaxCards
    /\ any_fail /\ ~any_ok /\ ~hit_data
    /\ Lower(request[1]) \notin DOMAIN combo_cache
    /\ response.analyzed_cards = MaxCards

\* C5: in a successful response potential_combos is the first min(20, n)
\* entries, in order, of the matcher's n potential combos, and combos is the
\* matcher's complete list in full.
C5_Truncation ==
    (pc = "done" /\ response.status = 200) =>
        LET pot == Values(potential_combos)
            m == IF Len(pot) < PotentialLimit THEN Len(pot) ELSE PotentialLimit
        IN  /\ Len(response.potential_combos) = m
            /\ \A k \in 1..m : response.potential_combos[k] = pot[k]
            /\ response.combos = Values(found_combos)

\* A successful response to a call that found more than 20 potential and more
\* than 20 complete combos
C5_Witness ==
    /\ pc = "done"
    /\ response.status = 200
    /\ Len(potential_combos) > PotentialLimit
    /\ Len(found_combos) > PotentialLimit
    /\ Len(response.combos) > PotentialLimit

\* C6: a request with no cards or more than 200 cards is answered 400 in a
\* step that makes no lookup and no provider call and leaves the cache as it
\* was; a request of 1 to 200 cards passes validation and enters the matcher.
C6_Validation ==
    [][pc # "loop" =>
          IF Len(request') \in 1..MaxCards
          THEN pc' = "loop" /\ response'.status # 400
          ELSE /\ pc' = "done"
               /\ response'.status = 400
               /\ UNCHANGED <<combo_cache, lookup, seen, any_ok, any_fail, hit_data>>]_vars

\* A request of exactly 200 cards was answered 200
C6_Witness ==
    /\ pc = "done"
    /\ Len(request) = MaxCards
    /\ response.status = 200
    /\ response.analyzed_cards = MaxCards

\* C7: every DeckCombo returned is complete, has no missing cards, and its
\* present_cards is the combo's whole card list, lowercased, in the combo's
\* order, each element of it a member of the lowercased deck set.
C7_DeckComboShape ==
    Returned =>
        \A j \in DOMAIN found_combos :
            LET v == Values(found_combos)[j]
            IN  /\ v.is_complete = TRUE
                /\ v.missing_cards = <<>>
                /\ Len(v.present_cards) = Len(v.combo.cards)
                /\ \A k \in DOMAIN v.combo.cards :
                       /\ v.present_cards[k] = Lower(v.combo.cards[k])
                       /\ v.present_cards[k] \in deck_cards

\* A call returned a DeckCombo whose card list is not all lowercase
C7_Witness ==
    /\ Returned
    /\ \E j \in DOMAIN found_combos :
           LET v == Values(found_combos)[j]
           IN  Len(v.present_cards) >= 2 /\ v.present_cards # v.combo.cards

\* C8 as stated: a call of find_combos_in_deck that follows a call with the
\* same card list returns the same two lists, in the same order.
C8_SameResult ==
    (Returned /\ prev.same) =>
        /\ Values(found_combos) = Values(prev.found)
        /\ Values(potential_combos) = Values(prev.potential)

\* C8 amended: the same, when no provider call of the first call failed (each
\* of its lookups was a cache hit or a provider call that succeeded).
C8_SameResultClean ==
    (Returned /\ prev.same /\ prev.clean) =>
        /\ Values(found_combos) = Values(prev.found)
        /\ Values(potential_combos) = Values(prev.potential)

\* A second call with the same deck, after a first call without a provider
\* failure, returned combos of both kinds
C8_Witness ==
    /\ Returned
    /\ prev.same
    /\ prev.clean
    /\ found_combos # <<>>
    /\ potential_combos # <<>>

\* C9: a record returned by a lookup with at least 2 card-list entries in the
\* deck has its identity in the complete list when none of its cards is
\* missing, and in the complete or the potential list otherwise.
C9_Completeness ==
    Returned =>
        \A rec \in seen :
            PresentCount(rec) >= 2 =>
                IF MissingCount(rec) = 0
                THEN IdOf(rec) \in KeySet(found_combos)
                ELSE IdOf(rec) \in KeySet(found_combos) \cup KeySet(potential_combos)

\* A call returned after its lookups gave a record with all cards in the deck
\* and another with two in the deck and one missing
C9_Witness ==
    /\ Returned
    /\ \E rec \in seen : PresentCount(rec) >= 2 /\ MissingCount(rec) = 0
    /\ \E rec \in seen :
           /\ PresentCount(rec) >= 2
           /\ MissingCount(rec) >= 1
           /\ IdOf(rec) \in KeySet(potential_combos)

\* C10: the identity synthesized for an id-less record is the same every time
\* the record is evaluated, in every process run.
C10_StableIdentity ==
    \A c \in HashInputs : Cardinality(synth[c]) <= 1

\* C11: within one call the first classification of an identity is final: a
\* pass of the loop leaves every entry already registered where and as it was,
\* and registers no identity that one map holds in the other map.
C11_FirstClassificationFinal ==
    [][pc = "loop" =>
          /\ Len(found_combos') >= Len(found_combos)
          /\ SubSeq(found_combos', 1, Len(found_combos)) = found_combos
          /\ Len(potential_combos') >= Len(potential_combos)
          /\ SubSeq(potential_combos', 1, Len(potential_combos)) = potential_combos
          /\ KeySet(potential_combos) \cap KeySet(found_combos') \subseteq KeySet(found_combos)
          /\ KeySet(found_combos) \cap KeySet(potential_combos') \subseteq KeySet(potential_combos)]_vars

\* Two names are the same up to letter case, stated without lower()
CasePairs == {<<"A", "a">>, <<"B", "b">>, <<"D", "d">>}

SameButCase(n1, n2) ==
    /\ Len(n1) = Len(n2)
    /\ \A j \in DOMAIN n1 :
          n1[j] = n2[j] \/ <<n1[j], n2[j]>> \in CasePairs \/ <<n2[j], n1[j]>> \in CasePairs

\* C12: once a provider call for a key has succeeded (an empty or None answer
\* included), the entry stays as stored, and every later lookup of a name with
\* the same lowercase form is a hit that returns the stored list and calls no
\* provider: so is the lookup of a name that differs only by letter case from
\* the name looked up just before.  A lookup is a hit only when an entry is
\* stored under a key that differs from the name by letter case alone, and
\* only a successful provider call creates an entry.
C12_CacheHit ==
    [][/\ \A k \in DOMAIN combo_cache :
             k \in DOMAIN combo_cache' /\ combo_cache'[k] = combo_cache[k]
       /\ pc = "loop" =>
             LET name == card_names[idx]
             IN  /\ Lower(name) \in DOMAIN combo_cache =>
                       /\ lookup'.kind = "hit"
                       /\ lookup'.ret = combo_cache[Lower(name)]
                       /\ combo_cache' = combo_cache
                 /\ (lookup.kind \in {"ok", "hit"} /\ SameButCase(lookup.name, name)) =>
                       /\ lookup'.kind = "hit"
                       /\ lookup'.ret = lookup.ret
                 /\ lookup'.kind = "hit" =>
                       \E k \in DOMAIN combo_cache : SameButCase(k, name)
                 /\ DOMAIN combo_cache' # DOMAIN combo_cache => lookup'.kind = "ok"]_vars

\* deck ["A", "a"]: the provider answered for "A" with an empty list or None,
\* and the lookup of "a" was a hit on the stored empty list
C12_Witness ==
    /\ card_names = <<A, a>>
    /\ idx = 3
    /\ any_ok
    /\ ~any_fail
    /\ lookup = [name |-> a, kind |-> "hit", ret |-> <<>>]
    /\ DOMAIN combo_cache = {a}

\* The worker's lookup has returned a list the provider answered for its key,
\* or the empty list
ReturnsProvided ==
    \A w \in Workers :
        threads[w].pc = "returned" =>
            \/ threads[w].ret = <<>>
            \/ <<Lower(threads[w].name), threads[w].ret>> \in provided

KeepsEntries ==
    \A k \in DOMAIN cache0 : k \in DOMAIN combo_cache /\ combo_cache[k] = cache0[k]

\* C14: a request that ends in an error, 400 or 500, leaves the
\* cache exactly as it was when the request started.
C14_FailsAtomically ==
    (pc = "done" /\ response.status \in {400, 500}) => combo_cache = cache0

\* What the code does instead (C14): a request rejected by validation leaves
\* the cache as it was; a request that ends in 500 returns no result, keeps every entry the
\* cache held before unchanged, and keeps what its lookups stored before the
\* error: the list that made the matcher raise is in the cache.
C14_FailureKeepsLookups ==
    /\ (pc = "done" /\ response.status = 400) => combo_cache = cache0
    /\ (pc = "done" /\ response.status = 500) =>
          /\ KeepsEntries
          /\ response.combos = <<>> /\ response.potential_combos = <<>>
          /\ Lower(lookup.name) \in DOMAIN combo_cache
          /\ combo_cache[Lower(lookup.name)] = lookup.ret
          /\ combo_cache # cache0 => any_ok

\* deck ["A", "B"]: the answer for "A" was stored, the answer for "B" was
\* stored and made the matcher raise; the request ended in 500 with both
\* entries new in the cache
C14_Witness ==
    /\ pc = "done"
    /\ response.status = 500
    /\ request = <<A, B>>
    /\ cache0 = EmptyCache
    /\ DOMAIN combo_cache = {Lower(A), Lower(B)}
    /\ lookup = [name |-> B, kind |-> "ok", ret |-> <<R1, RBad>>]

\* The record would be registered as complete, or as potential, in this deck
IsComplete(rec) == PresentCount(rec) >= MinPresent /\ MissingCount(rec) = 0

IsPartial(rec) == PresentCount(rec) >= MinPresent /\ MissingCount(rec) >= 1

\* The position in the answer ret of the first record of identity id that
\* is complete (kind = "complete") or partial (kind = "partial"); 0 when none
FirstPos(ret, id, kind) ==
    LET fits(j) == /\ IdOf(ret[j]) = id
                   /\ IF kind = "complete" THEN IsComplete(ret[j]) ELSE IsPartial(ret[j])
    IN  IF \E j \in DOMAIN ret : fits(j)
        THEN CHOOSE j \in DOMAIN ret : fits(j) /\ \A k \in 1..(j - 1) : ~fits(k)
        ELSE 0

\* dict' is dict followed by entries whose identities first occur in ret in
\* the order of the entries
GrowsInOrder(dict, dictNew, ret, kind) ==
    /\ Len(dictNew) >= Len(dict)
    /\ SubSeq(dictNew, 1, Len(dict)) = dict
    /\ \A j \in (Len(dict) + 1)..Len(dictNew) : FirstPos(ret, dictNew[j].id, kind) > 0
    /\ \A j, k \in (Len(dict) + 1)..Len(dictNew) :
          j < k => FirstPos(ret, dictNew[j].id, kind) < FirstPos(ret, dictNew[k].id, kind)

\* C15: both lists are in the order of first discovery: every pass of the
\* loop (deck cards in input order) keeps the entries registered so far in
\* place and puts the new ones behind them, in the order in which the card's
\* answer holds their first registered records; the lists are returned in
\* that order (the potential list cut to PotentialLimit).
C15_DiscoveryOrder ==
    [][(pc = "loop" /\ response'.status # 500) =>
          /\ GrowsInOrder(found_combos, found_combos', lookup'.ret, "complete")
          /\ GrowsInOrder(potential_combos, potential_combos', lookup'.ret, "partial")
          /\ pc' = "done" =>
                /\ response'.combos = [j \in DOMAIN found_combos' |-> found_combos'[j].v]
                /\ \A j \in DOMAIN response'.potential_combos :
                       response'.potential_combos[j] = potential_combos'[j].v]_vars

\* deck ["A", "B"]: the answer for "A" registered c1 as complete; the answer
\* for "B" held c4 (partial), c1 again (partial, not registered) and c3
\* (complete): the complete list is c1, c3 and the potential list is c4
C15_Witness ==
    /\ pc = "done"
    /\ response.status = 200
    /\ card_names = <<A, B>>
    /\ lookup.ret = <<R7, R2, R6>>
    /\ [j \in DOMAIN found_combos |-> found_combos[j].id] = <<"c1", "c3">>
    /\ [j \in DOMAIN potential_combos |-> potential_combos[j].id] = <<"c4">>
    /\ Len(response.combos) = 2

\* How many entries of the sequence s are x
Count(s, x) == Cardinality({j \in DOMAIN s : s[j] = x})

\* The two sequences hold the same entries, each as many times
SameEntries(s, t) ==
    \A x \in Range(s) \cup Range(t) : Count(s, x) = Count(t, x)

\* The PotentialCombo p, registered under identity id, is well formed
WellFormedPotential(id, p) ==
    /\ Len(p.cards) >= MinPresent
    /\ p.missing_pieces # <<>>
    /\ \A c \in Range(p.cards) : c \in deck_cards
    /\ \A m \in Range(p.missing_pieces) : m \notin deck_cards
    /\ \E rec \in seen :
          /\ IdOf(rec) = id
          /\ SameEntries(p.cards \o p.missing_pieces, LowerAll(Get(rec, "cards", <<>>)))

NoRepeat(dict) ==
    \A j, k \in DOMAIN dict : dict[j].id = dict[k].id => j = k

\* C17: within one call each identity is registered at most once as complete
\* and at most once as potential, however often the deck's lookups return its
\* record; the complete list returned names each identity once.
C17_NoDuplicates ==
    /\ NoRepeat(found_combos)
    /\ NoRepeat(potential_combos)
    /\ (pc = "done" /\ response.status = 200) =>
          /\ Len(response.combos) = Cardinality(KeySet(found_combos))
          /\ \A j, k \in DOMAIN response.combos :
                 response.combos[j].combo.id = response.combos[k].combo.id => j = k
          /\ Len(response.potential_combos) <= Cardinality(KeySet(potential_combos))

\* deck ["A", "B", "a"]: the lookups of "B" and of "a" (a hit on the list
\* stored for "A") each returned the record c1 twice; the call returned c1
\* once
C17_Witness ==
    /\ pc = "done"
    /\ response.status = 200
    /\ card_names = <<A, B, a>>
    /\ lookup = [name |-> a, kind |-> "hit", ret |-> <<R1, R1>>]
    /\ Lower(B) \in DOMAIN combo_cache
    /\ combo_cache[Lower(B)] = <<R1, R1>>
    /\ Len(response.combos) = 1
    /\ response.combos[1].combo.id = "c1"

\* The card list without the later repeats of a name, letter case put aside
RECURSIVE Dedup(_)
Dedup(cards) ==
    IF cards = <<>> THEN <<>>
    ELSE LET front == Dedup(SubSeq(cards, 1, Len(cards) - 1))
             last == cards[Len(cards)]
         IN  IF \E j \in DOMAIN front : SameButCase(front[j], last)
             THEN front
             ELSE Append(front, last)

\* The maps find_combos_in_deck builds for the card list cards when every
\* lookup is answered with the list the cache holds for the card
RECURSIVE RunOn(_, _)
RunOn(cards, deck) ==
    IF cards = <<>> THEN [found |-> <<>>, potential |-> <<>>]
    ELSE LET before == RunOn(SubSeq(cards, 1, Len(cards) - 1), deck)
         IN  ClassifyAll(combo_cache[Lower(cards[Len(cards)])], deck, hash_of, before)

\* C18: when every provider call of a call succeeded, the call returns the
\* lists, in the order, that the card list without its later repeats gives
\* with the same answers; and a lookup of the call goes to the provider only
\* for a name that no earlier position of the card list holds in any letter
\* case, so the provider is called at most once for each lowercased name.
C18_RepeatsChangeNothing ==
    /\ []((Returned /\ ~any_fail) =>
             LET ref == RunOn(Dedup(card_names), {Lower(c) : c \in Range(Dedup(card_names))})
             IN  /\ found_combos = ref.found
                 /\ potential_combos = ref.potential
                 /\ response.status = 200 =>
                       /\ response.combos = Values(ref.found)
                       /\ response.potential_combos = Take(Values(ref.potential), PotentialLimit))
    /\ [][(pc = "loop" /\ ~any_fail /\ lookup'.kind = "ok") =>
             \A j \in 1..(idx - 1) : ~SameButCase(card_names[j], card_names[idx])]_vars

\* deck ["A", "B", "a"] on an empty cache: the provider answered for "A" and
\* for "B", the lookup of "a" was a hit, and the call returned a complete and a
\* potential combo
C18_Witness ==
    /\ pc = "done"
    /\ response.status = 200
    /\ card_names = <<A, B, a>>
    /\ cache0 = EmptyCache
    /\ ~any_fail
    /\ lookup.name = a /\ lookup.kind = "hit" /\ lookup.ret # <<>>
    /\ response.combos # <<>>
    /\ response.potential_combos # <<>>

====
